---- MODULE Spec2Model ----
(***************************************************************************)
(* A model of the JSON-driven CV scoring engine (engine.cjs) and of the    *)
(* two rubric-driven script variants held in score-cvs.mjs.                *)
(*                                                                         *)
(* Texts are sequences of characters; a character is a one-character       *)
(* string, and a character outside ASCII is written by its code point      *)
(* ("U+00E9").  Points are fixed-point numbers: a rubric weight is counted *)
(* in hundredths of a point and an unrounded sum of points in thousandths, *)
(* so that the 0.6 alternative credit and toFixed(2) are exact.            *)
(***************************************************************************)
EXTENDS Integers, Sequences, FiniteSets, TLC

VARIABLES
    pc,         \* position of the running program or of the function call
    arg,        \* the inputs: the arguments of the function under check,
                \* or the program's environment (configuration, clock)
    res,        \* what the function returned (Null before the call); in
                \* score-cvs.mjs, the LLM lines of the reports written
    files,      \* the batch: the documents glob() found, in order
    idx,        \* number of documents the batch loop has finished
    rows,       \* the rows pushed so far, ranked once the loop is over
    outputs,    \* names of the files written under the output directory
    exitCode    \* the process's exit status (Null while it runs)

vars == <<pc, arg, res, files, idx, rows, outputs, exitCode>>

Null == "null"

\* A value that may be null or undefined: None, or Some(v).
None == <<>>
Some(v) == <<v>>

\* ---------------------------------------------------------------- bounds

MaxTextLen == 4
MaxTermLen == 2
MaxItems == 2
MaxLines == 1
MaxFiles == 3
YearSpan == 1

\* ------------------------------------------------------------ characters

LowerAZ ==
    <<"a", "b", "c", "d", "e", "f", "g", "h", "i", "j", "k", "l", "m",
      "n", "o", "p", "q", "r", "s", "t", "u", "v", "w", "x", "y", "z">>

UpperAZ ==
    <<"A", "B", "C", "D", "E", "F", "G", "H", "I", "J", "K", "L", "M",
      "N", "O", "P", "Q", "R", "S", "T", "U", "V", "W", "X", "Y", "Z">>

Digits == {"0", "1", "2", "3", "4", "5", "6", "7", "8", "9"}

Range(s) == {s[k] : k \in 1..Len(s)}

IndexOf(s, c) == CHOOSE k \in 1..Len(s) : s[k] = c

LowerOf == [c \in Range(UpperAZ) |-> LowerAZ[IndexOf(UpperAZ, c)]]
UpperOf == [c \in Range(LowerAZ) |-> UpperAZ[IndexOf(LowerAZ, c)]]

\* \w of a JavaScript regular expression without the u flag: [A-Za-z0-9_].
WordChars == Range(LowerAZ) \cup Range(UpperAZ) \cup Digits \cup {"_"}

IsWordChar(c) == c \in WordChars

\* String.prototype.toLowerCase, one character at a time.
ToLowerChar(c) ==
    IF c \in DOMAIN LowerOf THEN LowerOf[c]
    ELSE IF c = "U+00C9" THEN "U+00E9"
    ELSE c

\* Canonicalize of an i-flagged regular expression (no u flag): the upper
\* case of the character.
Canonicalize(c) ==
    IF c \in DOMAIN UpperOf THEN UpperOf[c]
    ELSE IF c = "U+00E9" THEN "U+00C9"
    ELSE c

\* norm(s): NBSP to a space, the dashes U+2010..U+2013 and U+2014 to "-",
\* then lower case.
NormChar(c) ==
    IF c = "U+00A0" THEN " "
    ELSE IF c \in {"U+2010", "U+2011", "U+2012", "U+2013", "U+2014"} THEN "-"
    ELSE ToLowerChar(c)

norm(s) == [k \in 1..Len(s) |-> NormChar(s[k])]

\* ------------------------------------------------------- whole-word match

\* \b at the gap after the first p characters of text (0 <= p <= Len):
\* exactly one of the two neighbours is a word character; beyond either end
\* of the text there is none.
IsWordAt(text, k) == k >= 1 /\ k <= Len(text) /\ IsWordChar(text[k])

WordBoundary(text, p) == IsWordAt(text, p) # IsWordAt(text, p + 1)

\* The escaped skill is matched literally, character by character, under
\* the i flag, starting at the 1-based position i.
LiteralAt(text, skill, i) ==
    /\ i + Len(skill) - 1 <= Len(text)
    /\ \A k \in 1..Len(skill) :
          Canonicalize(text[i + k - 1]) = Canonicalize(skill[k])

hasSkill_Substring(text, skill) ==
    \E i \in 1..(Len(text) + 1) : LiteralAt(text, skill, i)

\* hasSkill(text, skill): new RegExp(`\\b${escaped}\\b`, "i").test(text).
hasSkill(text, skill) ==
    \E i \in 1..(Len(text) + 1) :
        /\ WordBoundary(text, i - 1)
        /\ LiteralAt(text, skill, i)
        /\ WordBoundary(text, i + Len(skill) - 1)

\* ------------------------------------------------------------ fixed point

\* toFixed(2) of a non-negative number of thousandths, in hundredths: the
\* nearest hundredth, the larger one on a tie.
ToFixed2(milli) == (milli + 5) \div 10

\* ----------------------------------------------------------- skill scoring

\* Array.prototype.some and Array.prototype.find over the alternatives.
RECURSIVE FirstAltHit(_, _)
FirstAltHit(text, alts) ==
    IF alts = <<>> THEN None
    ELSE IF hasSkill(text, Head(alts)) THEN Some(Head(alts))
    ELSE FirstAltHit(text, Tail(alts))

RECURSIVE SomeAlt(_, _)
SomeAlt(text, alts) ==
    IF alts = <<>> THEN FALSE
    ELSE hasSkill(text, Head(alts)) \/ SomeAlt(text, Tail(alts))

skillCredit_AltFull(foundMain, foundAlt) ==
    IF foundMain \/ foundAlt THEN 10 ELSE 0

\* credit, in tenths: 1 for the main name, 0.6 for an alternative, else 0.
skillCredit(foundMain, foundAlt) ==
    IF foundMain THEN 10 ELSE IF foundAlt THEN 6 ELSE 0

\* One turn of scoreSkills' loop: the points added (thousandths) and the
\* detail pushed.
skillDetail(text, item) ==
    LET foundMain == hasSkill(text, item.name)
        foundAlt == SomeAlt(text, item.alternatives)
        add == item.weight * skillCredit(foundMain, foundAlt)
    IN  [name |-> item.name,
         matched |-> IF foundMain THEN "main"
                     ELSE IF foundAlt THEN "alternative" ELSE "none",
         weight |-> item.weight,
         pts |-> ToFixed2(add),
         altHit |-> IF foundAlt THEN FirstAltHit(text, item.alternatives)
                    ELSE None,
         add |-> add]

RECURSIVE scoreSkills(_, _)
scoreSkills(text, list) ==
    IF list = <<>> THEN [pts |-> 0, details |-> <<>>]
    ELSE LET n == Len(list)
             before == scoreSkills(text, SubSeq(list, 1, n - 1))
             d == skillDetail(text, list[n])
         IN  [pts |-> before.pts + d.add,
              details |-> Append(before.details,
                                 [f \in {"name", "matched", "weight", "pts", "altHit"}
                                     |-> d[f]])]

\* The missing required skills of the main loop: the details with matched
\* "none", each with the alternatives of the first rubric item of that name.
RECURSIVE FindByName(_, _)
FindByName(list, name) ==
    IF list = <<>> THEN None
    ELSE IF Head(list).name = name THEN Some(Head(list))
    ELSE FindByName(Tail(list), name)

AlternativesOf(found) == IF found = None THEN <<>> ELSE found[1].alternatives

RECURSIVE missingMust(_, _)
missingMust(details, mustSkills) ==
    IF details = <<>> THEN <<>>
    ELSE LET d == Head(details)
             rest == missingMust(Tail(details), mustSkills)
         IN  IF d.matched = "none"
             THEN <<[skill |-> d.name,
                     alternativesAvailable |->
                         AlternativesOf(FindByName(mustSkills, d.name))]>> \o rest
             ELSE rest

\* ------------------------------------------------------------- languages

RECURSIVE SomeMember(_, _)
SomeMember(text, group) ==
    IF group = <<>> THEN FALSE
    ELSE hasSkill(text, Head(group)) \/ SomeMember(text, Tail(group))

RECURSIVE EveryGroup(_, _)
EveryGroup(text, groups) ==
    IF groups = <<>> THEN TRUE
    ELSE SomeMember(text, Head(groups)) /\ EveryGroup(text, Tail(groups))

RECURSIVE SomeGroup(_, _)
SomeGroup(text, groups) ==
    IF groups = <<>> THEN FALSE
    ELSE SomeMember(text, Head(groups)) \/ SomeGroup(text, Tail(groups))

scoreLanguages_AnyGroup(text, cfg) ==
    LET ok == SomeGroup(text, cfg.mustAny)
    IN  [pts |-> IF ok THEN cfg.weight ELSE 0, groups |-> cfg.mustAny, ok |-> ok]

\* scoreLanguages(text, cfg) of the engine; pts in hundredths.
scoreLanguages(text, cfg) ==
    LET ok == EveryGroup(text, cfg.mustAny)
    IN  [pts |-> IF ok THEN cfg.weight ELSE 0, groups |-> cfg.mustAny, ok |-> ok]

\* ------------------------------------------------- regular expressions

\* A regular expression is a tree; Match gives, for a start position, every
\* way the backtracking matcher can match, in the order it tries them: the
\* first is the match exec() reports.  All patterns here carry the i flag.
Lit(s) == [t |-> "lit", s |-> s]
Set(cs) == [t |-> "set", cs |-> cs]
Cat(a) == [t |-> "cat", a |-> a]
Alt(a) == [t |-> "alt", a |-> a]
Rep(r, min, max) == [t |-> "rep", r |-> r, min |-> min, max |-> max, star |-> FALSE]
AtLeast(r, min) == [t |-> "rep", r |-> r, min |-> min, max |-> min, star |-> TRUE]
Opt(r) == Rep(r, 0, 1)
Grp(n, r) == [t |-> "grp", n |-> n, r |-> r]
Wb == [t |-> "wb"]

\* \s, over the characters of the model.
Space == Set({" ", "\t", "U+00A0"})
Digit == Set(Digits)

RECURSIVE Match(_, _, _, _)
RECURSIVE MatchCat(_, _, _, _)
RECURSIVE MatchAlt(_, _, _, _)
RECURSIVE MatchRep(_, _, _, _, _)
RECURSIVE ThenCat(_, _, _)
RECURSIVE ThenRep(_, _, _, _, _)

\* each way of rs, continued by the rest of a concatenation
ThenCat(rs, nodes, text) ==
    IF rs = <<>> THEN <<>>
    ELSE MatchCat(nodes, text, Head(rs).pos, Head(rs).caps)
            \o ThenCat(Tail(rs), nodes, text)

MatchCat(nodes, text, pos, caps) ==
    IF nodes = <<>> THEN <<[pos |-> pos, caps |-> caps]>>
    ELSE ThenCat(Match(Head(nodes), text, pos, caps), Tail(nodes), text)

MatchAlt(nodes, text, pos, caps) ==
    IF nodes = <<>> THEN <<>>
    ELSE Match(Head(nodes), text, pos, caps)
            \o MatchAlt(Tail(nodes), text, pos, caps)

\* each way of rs (one more turn of a greedy repetition), repeated further;
\* a turn that consumed nothing ends the repetition
ThenRep(rs, node, text, count, from) ==
    IF rs = <<>> THEN <<>>
    ELSE (IF Head(rs).pos > from
          THEN MatchRep(node, text, Head(rs).pos, Head(rs).caps, count)
          ELSE <<>>)
            \o ThenRep(Tail(rs), node, text, count, from)

MatchRep(node, text, pos, caps, count) ==
    (IF node.star \/ count < node.max
     THEN ThenRep(Match(node.r, text, pos, caps), node, text, count + 1, pos)
     ELSE <<>>)
        \o (IF count >= node.min THEN <<[pos |-> pos, caps |-> caps]>> ELSE <<>>)

RECURSIVE Captured(_, _, _, _)
Captured(rs, n, text, from) ==
    IF rs = <<>> THEN <<>>
    ELSE <<[pos |-> Head(rs).pos,
            caps |-> [Head(rs).caps EXCEPT
                         ![n] = Some(SubSeq(text, from, Head(rs).pos - 1))]]>>
            \o Captured(Tail(rs), n, text, from)

Match(node, text, pos, caps) ==
    IF node.t = "lit"
    THEN IF LiteralAt(text, node.s, pos)
         THEN <<[pos |-> pos + Len(node.s), caps |-> caps]>> ELSE <<>>
    ELSE IF node.t = "set"
    THEN IF pos <= Len(text) /\ text[pos] \in node.cs
         THEN <<[pos |-> pos + 1, caps |-> caps]>> ELSE <<>>
    ELSE IF node.t = "wb"
    THEN IF WordBoundary(text, pos - 1)
         THEN <<[pos |-> pos, caps |-> caps]>> ELSE <<>>
    ELSE IF node.t = "cat" THEN MatchCat(node.a, text, pos, caps)
    ELSE IF node.t = "alt" THEN MatchAlt(node.a, text, pos, caps)
    ELSE IF node.t = "rep" THEN MatchRep(node, text, pos, caps, 0)
    ELSE Captured(Match(node.r, text, pos, caps), node.n, text, pos)

\* The least member of a non-empty set of integers.
Least(S) == CHOOSE k \in S : \A j \in S : k <= j

\* RegExp.prototype.exec without the g flag: the first match at the
\* leftmost position that has one, as [index, end, caps], or None.
ExecFrom(re, text, start, ngroups) ==
    LET none == [k \in 1..ngroups |-> None]
        starts == {st \in start..(Len(text) + 1) : Match(re, text, st, none) # <<>>}
    IN  IF starts = {} THEN None
        ELSE LET st == Least(starts)
                 first == Head(Match(re, text, st, none))
             IN  Some([index |-> st, end |-> first.pos, caps |-> first.caps])

Exec(re, text, ngroups) == ExecFrom(re, text, 1, ngroups)

Test(re, text) == Exec(re, text, 0) # None

\* ------------------------------------------------------------- date ranges

MONTHS ==
    <<<<"j", "a", "n", "u", "a", "r", "y">>,
      <<"f", "e", "b", "r", "u", "a", "r", "y">>,
      <<"m", "a", "r", "c", "h">>, <<"a", "p", "r", "i", "l">>,
      <<"m", "a", "y">>, <<"j", "u", "n", "e">>, <<"j", "u", "l", "y">>,
      <<"a", "u", "g", "u", "s", "t">>,
      <<"s", "e", "p", "t", "e", "m", "b", "e", "r">>,
      <<"o", "c", "t", "o", "b", "e", "r">>,
      <<"n", "o", "v", "e", "m", "b", "e", "r">>,
      <<"d", "e", "c", "e", "m", "b", "e", "r">>>>

MONTH_ABBR == [k \in 1..Len(MONTHS) |-> SubSeq(MONTHS[k], 1, 3)]

MonthName == Alt([k \in 1..24 |-> Lit((MONTHS \o MONTH_ABBR)[k])])

\* 20\d{2}|19\d{2}|\d{1,2}[\/\-]\d{2,4}
YearToken ==
    <<Cat(<<Lit(<<"2", "0">>), Rep(Digit, 2, 2)>>),
      Cat(<<Lit(<<"1", "9">>), Rep(Digit, 2, 2)>>),
      Cat(<<Rep(Digit, 1, 2), Set({"/", "-"}), Rep(Digit, 2, 4)>>)>>

\* re.range
reRange ==
    Cat(<<Wb,
          Opt(Cat(<<Grp(1, MonthName), AtLeast(Space, 1)>>)),
          Grp(2, Alt(YearToken)),
          AtLeast(Space, 0),
          Alt(<<Lit(<<"t", "o">>), Lit(<<"U+2013">>), Lit(<<"-">>),
                Lit(<<"U+2014">>)>>),
          AtLeast(Space, 0),
          Opt(Cat(<<Grp(3, MonthName), AtLeast(Space, 1)>>)),
          Grp(4, Alt(<<Lit(<<"p", "r", "e", "s", "e", "n", "t">>),
                     Lit(<<"c", "u", "r", "r", "e", "n", "t">>),
                     Lit(<<"n", "o", "w">>)>>
                     \o YearToken)),
          Wb>>)

\* re.classify, in the order extractRanges tries them.
Word(alternatives) == Cat(<<Wb, Alt(alternatives), Wb>>)

reClassify ==
    <<[type |-> "internship",
       re |-> Word(<<Lit(<<"i", "n", "t", "e", "r", "n">>),
                     Lit(<<"i", "n", "t", "e", "r", "n", "s", "h", "i", "p">>)>>)],
      [type |-> "parttime",
       re |-> Word(<<Cat(<<Lit(<<"p", "a", "r", "t">>), Opt(Lit(<<"-">>)),
                           Lit(<<"t", "i", "m", "e">>)>>)>>)],
      [type |-> "freelance",
       re |-> Word(<<Lit(<<"f", "r", "e", "e", "l", "a", "n", "c", "e">>),
                     Cat(<<Lit(<<"s", "e", "l", "f">>), Opt(Set({"-", " "})),
                           Lit(<<"e", "m", "p", "l", "o", "y", "e", "d">>)>>),
                     Lit(<<"c", "o", "n", "s", "u", "l", "t", "a", "n", "t">>),
                     Lit(<<"c", "o", "n", "t", "r", "a", "c", "t", "o", "r">>)>>)],
      [type |-> "contract",
       re |-> Word(<<Lit(<<"c", "o", "n", "t", "r", "a", "c", "t">>),
                     Lit(<<"c", "o", "n", "t", "r", "a", "c", "t", "o", "r">>),
                     Lit(<<"o", "u", "t", "s", "o", "u", "r", "c", "e", "d">>)>>)],
      [type |-> "fulltime",
       re |-> Word(<<Cat(<<Lit(<<"f", "u", "l", "l">>), Opt(Set({"-", " "})),
                           Lit(<<"t", "i", "m", "e">>)>>),
                     Lit(<<"p", "e", "r", "m", "a", "n", "e", "n", "t">>)>>)]>>

\* the gazetteer of extractRanges, in the order of its alternation
reLocation ==
    Alt(<<Lit(<<"s", "a", "u", "d", "i", " ", "a", "r", "a", "b", "i", "a">>),
          Lit(<<"k", "s", "a">>), Lit(<<"r", "i", "y", "a", "d", "h">>),
          Lit(<<"j", "e", "d", "d", "a", "h">>),
          Lit(<<"d", "a", "m", "m", "a", "m">>),
          Lit(<<"k", "h", "o", "b", "a", "r">>),
          Lit(<<"a", "m", "m", "a", "n">>),
          Lit(<<"j", "o", "r", "d", "a", "n">>), Lit(<<"u", "a", "e">>),
          Lit(<<"d", "u", "b", "a", "i">>),
          Lit(<<"t", "u", "r", "k", "e", "y">>),
          Lit(<<"p", "a", "k", "i", "s", "t", "a", "n">>),
          Lit(<<"e", "g", "y", "p", "t">>)>>)

\* Array.prototype.indexOf, 0-based, -1 when absent.
RECURSIVE IndexFrom(_, _, _)
IndexFrom(list, x, k) ==
    IF k > Len(list) THEN -1
    ELSE IF list[k] = x THEN k - 1
    ELSE IndexFrom(list, x, k + 1)

Prefix(s, n) == SubSeq(s, 1, IF Len(s) < n THEN Len(s) ELSE n)

\* parseMonthToken(tok): the month's index 0..11, or null.
parseMonthToken(tok) ==
    IF tok = None \/ tok = Some(<<>>) THEN None
    ELSE LET s == [k \in 1..Len(tok[1]) |-> ToLowerChar(tok[1][k])]
             full == IndexFrom(MONTHS, s, 1)
             abbr == IndexFrom(MONTH_ABBR, Prefix(s, 3), 1)
         IN  IF full >= 0 THEN Some(full)
             ELSE IF abbr >= 0 THEN Some(abbr)
             ELSE None

DigitValue(c) == IndexFrom(<<"0", "1", "2", "3", "4", "5", "6", "7", "8", "9">>, c, 1)

\* parseInt(s, 10) of a string without sign or leading blanks: the number
\* its leading digits spell, or None for NaN.
RECURSIVE DigitsValue(_, _, _)
DigitsValue(s, k, acc) ==
    IF k > Len(s) \/ s[k] \notin Digits THEN acc
    ELSE DigitsValue(s, k + 1, 10 * acc + DigitValue(s[k]))

parseInt(s) ==
    IF s = <<>> \/ s[1] \notin Digits THEN None ELSE Some(DigitsValue(s, 1, 0))

Max(a, b) == IF a > b THEN a ELSE b
Min(a, b) == IF a < b THEN a ELSE b

\* parseY(yRaw): "2023" or "05/2023"; y is None when it is NaN.
reMonthYear ==
    Cat(<<Grp(1, Rep(Digit, 1, 2)), Set({"/", "-"}), Grp(2, Rep(Digit, 2, 4))>>)

parseY_MonthAsIs(yRaw) ==
    LET m == Exec(reMonthYear, yRaw, 2)
    IN  IF m # None
        THEN [y |-> parseInt(IF Len(m[1].caps[2][1]) = 2
                              THEN <<"2", "0">> \o m[1].caps[2][1]
                              ELSE m[1].caps[2][1]),
              m |-> Max(1, Min(12, parseInt(m[1].caps[1][1])[1]))]
        ELSE [y |-> parseInt(yRaw), m |-> 0]

parseY(yRaw) ==
    LET m == Exec(reMonthYear, yRaw, 2)
    IN  IF m # None
        THEN LET g1 == m[1].caps[1][1]
                 g2 == m[1].caps[2][1]
             IN  [y |-> parseInt(IF Len(g2) = 2 THEN <<"2", "0">> \o g2 ELSE g2),
                  m |-> Max(1, Min(12, parseInt(g1)[1])) - 1]
        ELSE [y |-> parseInt(yRaw), m |-> 0]

monthsBetween_Exclusive(a, b) == (b.y - a.y) * 12 + (b.m - a.m)

\* monthsBetween(a, b): inclusive months.
monthsBetween(a, b) == (b.y - a.y) * 12 + (b.m - a.m) + 1

YearMin == 1900
YearMax == 2200

\* clampMonthYear(obj); obj.y is None for NaN, and NaN || 0 is 0.
clampMonthYear(obj) ==
    IF obj = None THEN None
    ELSE LET y == IF obj[1].y = None THEN 0 ELSE obj[1].y[1]
         IN  Some([y |-> Max(YearMin, Min(YearMax, y)),
                   m |-> Max(0, Min(11, obj[1].m))])

\* text.split(/\r?\n/), from the position start on.
RECURSIVE SplitLines(_, _)
SplitLines(text, start) ==
    LET breaks == {k \in start..Len(text) : text[k] = "\n"}
    IN  IF breaks = {} THEN <<SubSeq(text, start, Len(text))>>
        ELSE LET k == Least(breaks)
                 end == IF k > start /\ text[k - 1] = "\r" THEN k - 2 ELSE k - 1
             IN  <<SubSeq(text, start, end)>> \o SplitLines(text, k + 1)

\* new RegExp(presentWords.join("|"), "i"): the words are plain letters;
\* joining no word gives the empty pattern.
rePresent(presentWords) ==
    IF presentWords = <<>> THEN Lit(<<>>)
    ELSE Alt([k \in 1..Len(presentWords) |-> Lit(presentWords[k])])

RECURSIVE classify_LastMatch(_, _)
classify_LastMatch(line, k) ==
    IF k > Len(reClassify) THEN "unspecified"
    ELSE IF classify_LastMatch(line, k + 1) # "unspecified"
    THEN classify_LastMatch(line, k + 1)
    ELSE IF Test(reClassify[k].re, line) THEN reClassify[k].type
    ELSE "unspecified"

RECURSIVE classify(_, _)
classify(line, k) ==
    IF k > Len(reClassify) THEN "unspecified"
    ELSE IF Test(reClassify[k].re, line) THEN reClassify[k].type
    ELSE classify(line, k + 1)

\* One turn of extractRanges' loop: the items the line adds (none or one).
\* now is the clock's {y, m}.  rangeItem is the turn from the parsed
\* groups on: clamp both ends, classify the line, look for a location.
rangeItem(line, monFromIdx, from, monToIdx, to, found) ==
    LET fromObj == clampMonthYear(Some(
            [y |-> from.y,
             m |-> IF monFromIdx # None THEN monFromIdx[1] ELSE from.m]))
        toObj == clampMonthYear(Some(
            [y |-> to.y,
             m |-> IF monToIdx # None THEN monToIdx[1] ELSE to.m]))
    IN  IF fromObj = None \/ toObj = None THEN <<>>
        ELSE <<[line |-> line,
                from |-> fromObj[1],
                to |-> toObj[1],
                type |-> classify(line, 1),
                loc |-> IF found = None THEN None
                        ELSE Some(SubSeq(line, found[1].index,
                                         found[1].end - 1))]>>

rangeEnd_January(toRaw, presentWords, now) ==
    IF Test(rePresent(presentWords), toRaw)
    THEN [y |-> Some(now.y), m |-> 0]
    ELSE parseY(toRaw)

\* to: the current month when toRaw holds a present word, else parseY.
rangeEnd(toRaw, presentWords, now) ==
    IF Test(rePresent(presentWords), toRaw)
    THEN [y |-> Some(now.y), m |-> now.m]
    ELSE parseY(toRaw)

\* The body of the loop for a line with the match m of re.range.
rangeOfMatch(line, m, presentWords, now) ==
    IF m = None THEN <<>>
    ELSE rangeItem(line,
                   parseMonthToken(m[1].caps[1]),
                   parseY(m[1].caps[2][1]),
                   parseMonthToken(m[1].caps[3]),
                   rangeEnd(m[1].caps[4][1], presentWords, now),
                   Exec(reLocation, line, 0))

rangeOfLine(line, presentWords, now) ==
    rangeOfMatch(line, Exec(reRange, line, 4), presentWords, now)

RECURSIVE rangesOfLines(_, _, _)
rangesOfLines(lines, presentWords, now) ==
    IF lines = <<>> THEN <<>>
    ELSE rangeOfLine(Head(lines), presentWords, now)
            \o rangesOfLines(Tail(lines), presentWords, now)

extractRanges(text, presentWords, now) ==
    rangesOfLines(SplitLines(text, 1), presentWords, now)

\* ------------------------------------------------------------ experience

EmploymentTypes ==
    {"fulltime", "parttime", "freelance", "contract", "internship", "unspecified"}

rangeMonths_Unclamped(r) == monthsBetween(r.from, r.to)

\* Math.max(0, monthsBetween(r.from, r.to))
rangeMonths(r) == Max(0, monthsBetween(r.from, r.to))

\* weightsByType[r.type] ?? 1.0, in tenths; weightsByType is a function on
\* the types the configuration names.
typeWeight(weightsByType, type) ==
    IF type \in DOMAIN weightsByType THEN weightsByType[type] ELSE 10

RECURSIVE sumExperienceMonths_Merged(_, _)
sumExperienceMonths_Merged(ranges, weightsByType) ==
    IF ranges = <<>>
    THEN [totalWeightedMonths |-> 0,
          byTypeMonths |-> [t \in EmploymentTypes |-> 0]]
    ELSE LET n == Len(ranges)
             before == sumExperienceMonths_Merged(SubSeq(ranges, 1, n - 1),
                                                  weightsByType)
             r == ranges[n]
             months == IF \E i \in 1..(n - 1) :
                              ranges[i].from = r.from /\ ranges[i].to = r.to
                       THEN 0 ELSE rangeMonths(r)
         IN  [totalWeightedMonths |->
                  before.totalWeightedMonths
                      + months * typeWeight(weightsByType, r.type),
              byTypeMonths |->
                  [before.byTypeMonths EXCEPT ![r.type] = @ + months]]

\* sumExperienceMonths(ranges, weightsByType); totalWeightedMonths is in
\* tenths of a month.
RECURSIVE sumExperienceMonths(_, _)
sumExperienceMonths(ranges, weightsByType) ==
    IF ranges = <<>>
    THEN [totalWeightedMonths |-> 0,
          byTypeMonths |-> [t \in EmploymentTypes |-> 0]]
    ELSE LET n == Len(ranges)
             before == sumExperienceMonths(SubSeq(ranges, 1, n - 1), weightsByType)
             r == ranges[n]
             months == rangeMonths(r)
         IN  [totalWeightedMonths |->
                  before.totalWeightedMonths
                      + months * typeWeight(weightsByType, r.type),
              byTypeMonths |->
                  [before.byTypeMonths EXCEPT ![r.type] = @ + months]]

\* n / d to the nearest integer, the larger one on a tie (n >= 0, d > 0).
RoundDiv(n, d) == (2 * n + d) \div (2 * d)

\* The credit fraction ok of scoreExperienceBlock, as num / den, for a
\* weighted total in tenths of a month and cfg.minYears || 0 in tenths of a
\* year: years = total / 120; 1 when years >= minYears, else
\* max(0, years / max(1, cfg.minYears || 1)).
experienceOk(totalWeightedMonths, minYears) ==
    IF totalWeightedMonths >= 12 * minYears
    THEN [num |-> 1, den |-> 1]
    ELSE [num |-> Max(0, totalWeightedMonths),
          den |-> 12 * Max(10, IF minYears = 0 THEN 10 ELSE minYears)]

\* scoreExperienceBlock(text, cfg) from the ranges on; cfg.weight and pts
\* in hundredths of a point, years in hundredths of a year (the type
\* weights are not negative, so neither is the total).
experienceOfRanges(ranges, cfg) ==
    LET sums == sumExperienceMonths(ranges, cfg.weightsByType)
        ok == experienceOk(sums.totalWeightedMonths, cfg.minYears)
    IN  [pts |-> RoundDiv(ok.num * cfg.weight, ok.den),
         years |-> RoundDiv(sums.totalWeightedMonths * 100, 120),
         ranges |-> ranges,
         byTypeMonths |-> sums.byTypeMonths]

scoreExperienceBlock(text, cfg, now) ==
    experienceOfRanges(extractRanges(text, cfg.presentWords, now), cfg)

\* --------------------------------------------------------------- location

\* String.prototype.includes: the exact characters, at some position.
Includes(text, part) ==
    \E i \in 1..(Len(text) + 1) :
        /\ i + Len(part) - 1 <= Len(text)
        /\ \A k \in 1..Len(part) : text[i + k - 1] = part[k]

\* hasAny(text, arr)
hasAny(text, arr) ==
    \E k \in 1..Len(arr) :
        Includes(text, [j \in 1..Len(arr[k]) |-> ToLowerChar(arr[k][j])])

\* The pattern of one required term once .replace(/\s+/g, "\\s+") has
\* rewritten its runs of blanks; the terms hold letters and blanks only.
RunEnd(term, k) ==
    Least({e \in k..Len(term) :
              \/ e = Len(term)
              \/ (term[e + 1] \in Space.cs) # (term[k] \in Space.cs)})

RECURSIVE TermNodes(_, _)
TermNodes(term, k) ==
    IF k > Len(term) THEN <<>>
    ELSE LET e == RunEnd(term, k)
         IN  <<IF term[k] \in Space.cs THEN AtLeast(Space, 1)
               ELSE Lit(SubSeq(term, k, e))>> \o TermNodes(term, e + 1)

\* new RegExp(requiredAny.join("|").replace(/\s+/g, "\\s+"), "i")
reWanted(requiredAny) ==
    IF requiredAny = <<>> THEN Lit(<<>>)
    ELSE Alt([k \in 1..Len(requiredAny) |-> Cat(TermNodes(requiredAny[k], 1))])

\* monthsInRequiredLocation(ranges, requiredAny)
RECURSIVE monthsInRequiredLocation(_, _)
monthsInRequiredLocation(ranges, requiredAny) ==
    IF ranges = <<>> THEN 0
    ELSE LET r == Head(ranges)
         IN  (IF r.loc # None /\ r.loc # Some(<<>>)
                    /\ Test(reWanted(requiredAny), r.loc[1])
              THEN rangeMonths(r) ELSE 0)
                 + monthsInRequiredLocation(Tail(ranges), requiredAny)

LocationMonthsCap == 24

\* scoreLocationPresence(text, cfg, ranges): 40% of the weight for a
\* mention, up to 60% for the months, toFixed(2); pts in hundredths.
scoreLocationPresence(text, cfg, ranges) ==
    LET mentioned == hasAny(text, cfg.requiredAny)
        counted == cfg.countMonthsInRequired /\ ranges # <<>>
        months == IF counted
                  THEN monthsInRequiredLocation(ranges, cfg.requiredAny) ELSE 0
        presence == IF mentioned THEN 4 * cfg.weight * LocationMonthsCap ELSE 0
        tenure == IF counted
                  THEN 6 * cfg.weight * Min(LocationMonthsCap, months) ELSE 0
    IN  [pts |-> RoundDiv(presence + tenure, 10 * LocationMonthsCap),
         monthsInRequired |-> months,
         mentioned |-> mentioned]

\* ------------------------------------------------------------------ links

Letters == Range(LowerAZ) \cup Range(UpperAZ)

\* [^\s], over the characters of the model.
NonSpace ==
    Set(WordChars \cup {".", "/", ":", "-", "?", "&", "%", "=", "+", "@", "~",
                        "#", ","})

\* (https?:\/\/)
Scheme == Cat(<<Lit(<<"h", "t", "t", "p">>), Opt(Lit(<<"s">>)), Lit(<<":", "/", "/">>)>>)

Www == Opt(Lit(<<"w", "w", "w", ".">>))

\* re.li.linkedin and re.li.github
reLinkedin ==
    Cat(<<Opt(Scheme), Www,
          Lit(<<"l", "i", "n", "k", "e", "d", "i", "n", ".", "c", "o", "m", "/">>),
          AtLeast(Set(Letters \cup Digits
                      \cup {"/", "_", "-", "?", "&", "%", "=", "+", "."}), 1)>>)

reGithub ==
    Cat(<<Opt(Scheme), Www,
          Lit(<<"g", "i", "t", "h", "u", "b", ".", "c", "o", "m", "/">>),
          AtLeast(Set(Letters \cup Digits \cup {".", "_", "-", "/"}), 1)>>)

\* re.li.websiteGlobal
reWebsiteGlobal ==
    Cat(<<Scheme, Www,
          Rep(Set(Letters \cup Digits
                  \cup {"-", "@", ":", "%", ".", "_", "+", "~", "#", "="}), 1, 256),
          Lit(<<".">>), AtLeast(Set(Letters), 2), Wb,
          Opt(Cat(<<Set({"/", "?"}), AtLeast(NonSpace, 0)>>))>>)

\* /linkedin|github/i
reLinkedinOrGithub ==
    Alt(<<Lit(<<"l", "i", "n", "k", "e", "d", "i", "n">>),
          Lit(<<"g", "i", "t", "h", "u", "b">>)>>)

\* /portfolio|resume|cv|personal|about/i
rePortfolio ==
    Alt(<<Lit(<<"p", "o", "r", "t", "f", "o", "l", "i", "o">>),
          Lit(<<"r", "e", "s", "u", "m", "e">>), Lit(<<"c", "v">>),
          Lit(<<"p", "e", "r", "s", "o", "n", "a", "l">>),
          Lit(<<"a", "b", "o", "u", "t">>)>>)

\* String.prototype.match with a g pattern: every match, left to right,
\* each search starting where the last match ended (none here is empty).
RECURSIVE MatchAll(_, _, _)
MatchAll(re, text, start) ==
    IF ExecFrom(re, text, start, 0) = None THEN <<>>
    ELSE <<SubSeq(text, ExecFrom(re, text, start, 0)[1].index,
                  ExecFrom(re, text, start, 0)[1].end - 1)>>
            \o MatchAll(re, text, ExecFrom(re, text, start, 0)[1].end)

\* the text of the first match, or null
FirstMatch(found, text) ==
    IF found = None THEN None
    ELSE Some(SubSeq(text, found[1].index, found[1].end - 1))

\* nonGhLi.find(portfolio-ish) || nonGhLi[0] || null
preferredLink(nonGhLi) ==
    IF SelectSeq(nonGhLi, LAMBDA u : Test(rePortfolio, u)) # <<>>
    THEN Some(Head(SelectSeq(nonGhLi, LAMBDA u : Test(rePortfolio, u))))
    ELSE IF nonGhLi # <<>> THEN Some(Head(nonGhLi))
    ELSE None

\* the filter of findLinks: (u) => !/linkedin|github/i.test(u)
keepLink(u) == ~Test(reLinkedinOrGithub, u)

\* findLinks(rawText)
findLinks(rawText) ==
    [linkedin |-> FirstMatch(Exec(reLinkedin, rawText, 0), rawText),
     github |-> FirstMatch(Exec(reGithub, rawText, 0), rawText),
     website |-> preferredLink(SelectSeq(MatchAll(reWebsiteGlobal, rawText, 1),
                                         keepLink))]

\* ------------------------------------------------------------ the engine

\* extractText(filePath): the text of a document, or None when readFile or
\* the PDF/DOCX reader throws.  glob() passes these four extensions only.
extractText(doc) ==
    IF ~doc.readable THEN None
    ELSE IF doc.ext \in {".pdf", ".docx"}
    THEN IF doc.corrupt THEN None ELSE Some(doc.raw)
    ELSE Some(doc.raw)

\* calcTotalScore(parts), in hundredths: the skills' points are thousandths.
calcTotalScore(parts) ==
    ToFixed2(parts.mustSkills.pts + parts.niceSkills.pts
             + 10 * (parts.experience.pts + parts.location.pts
                     + parts.languages.pts))

\* One turn of the main loop on an extracted text: the row it pushes.  (The
\* row's link columns are left out.)  rowOf builds the row from the five
\* scores, scoreDocument computes them from the raw text.
rowOf(base, cfg, mustSkills, niceSkills, experience, location, languages) ==
    [candidate |-> base,
     total |-> calcTotalScore([mustSkills |-> mustSkills,
                               niceSkills |-> niceSkills,
                               experience |-> experience,
                               location |-> location,
                               languages |-> languages]),
     mustSkillsPts |-> mustSkills.pts,
     niceSkillsPts |-> niceSkills.pts,
     expYearsWeighted |-> experience.years,
     expByTypeMonths |-> experience.byTypeMonths,
     locationMonthsInRequired |-> location.monthsInRequired,
     languagesOk |-> IF languages.ok THEN "yes" ELSE "no",
     missingMust |-> missingMust(mustSkills.details, cfg.mustSkills)]

scoreWithExperience(base, text, cfg, experience) ==
    rowOf(base, cfg,
          scoreSkills(text, cfg.mustSkills),
          scoreSkills(text, cfg.niceSkills),
          experience,
          scoreLocationPresence(text, cfg.location, experience.ranges),
          scoreLanguages(text, cfg.languages))

scoreText(base, text, cfg, now) ==
    scoreWithExperience(base, text, cfg,
                        scoreExperienceBlock(text, cfg.experience, now))

scoreDocument(base, raw, cfg, now) == scoreText(base, norm(raw), cfg, now)

compareRows_Ascending(a, b) == a.total - b.total

\* (a, b) => b.total - a.total
compareRows(a, b) == b.total - a.total

\* Array.prototype.sort: stable; row goes behind every row that the
\* comparator does not put after it.
RECURSIVE InsertRow(_, _)
InsertRow(sorted, row) ==
    IF sorted = <<>> THEN <<row>>
    ELSE IF compareRows(Head(sorted), row) <= 0
    THEN <<Head(sorted)>> \o InsertRow(Tail(sorted), row)
    ELSE <<row>> \o sorted

RECURSIVE sortRows(_)
sortRows(list) ==
    IF list = <<>> THEN <<>>
    ELSE InsertRow(sortRows(SubSeq(list, 1, Len(list) - 1)), list[Len(list)])

\* ------------------------------------------- score-cvs.mjs: the LLM boost

\* A JavaScript number that may be NaN; v is unused when nan.
NaN == [nan |-> TRUE, v |-> 0]
Num(v) == [nan |-> FALSE, v |-> v]

RECURSIVE SkipBlanks(_, _)
SkipBlanks(s, k) ==
    IF k <= Len(s) /\ s[k] = " " THEN SkipBlanks(s, k + 1) ELSE k

RECURSIVE DigitsEnd(_, _)
DigitsEnd(s, k) ==
    IF k <= Len(s) /\ s[k] \in Digits THEN DigitsEnd(s, k + 1) ELSE k

\* parseFloat(raw) in hundredths, None for NaN: blanks, a sign, digits and
\* a fraction are read and the rest is ignored; fractions are kept to two
\* digits and exponents are not modelled.
parseFloat(raw) ==
    LET k0 == SkipBlanks(raw, 1)
        signed == k0 <= Len(raw) /\ raw[k0] \in {"-", "+"}
        sign == IF signed /\ raw[k0] = "-" THEN -1 ELSE 1
        k1 == IF signed THEN k0 + 1 ELSE k0
        k2 == DigitsEnd(raw, k1)
        dotted == k2 <= Len(raw) /\ raw[k2] = "."
        k3 == IF dotted THEN DigitsEnd(raw, k2 + 1) ELSE k2
        whole == DigitsValue(SubSeq(raw, k1, k2 - 1), 1, 0)
        frac == IF dotted THEN Prefix(SubSeq(raw, k2 + 1, k3 - 1) \o <<"0", "0">>, 2)
                ELSE <<"0", "0">>
    IN  IF k2 = k1 /\ (~dotted \/ k3 = k2 + 1) THEN None
        ELSE Some(sign * (100 * whole + DigitsValue(frac, 1, 0)))

\* Math.max(0, Math.min(1, parseFloat(raw))), in hundredths: NaN stays NaN.
clampFactor(raw) ==
    LET parsed == parseFloat(raw)
    IN  IF parsed = None THEN NaN ELSE Num(Max(0, Min(100, parsed[1])))

\* n.toFixed(2) of a factor in hundredths.
factorText(n) ==
    IF n.nan THEN "NaN"
    ELSE ToString(n.v \div 100) \o "." \o ToString((n.v % 100) \div 10)
         \o ToString(n.v % 10)

\* json?.choices?.[0]?.message?.content?.trim() ?? "0"
contentOf(response) ==
    IF response.kind = "content" THEN response.content ELSE <<"0">>

\* llmBoostScore of the first script: everything happens inside the try.
\* Some(result), or None when the promise rejects; pts in 1/10000 point.
llmBoostScore(env, response, cfg) ==
    IF ~env.key THEN Some([pts |-> Num(0), reason |-> "LLM disabled (no API key)"])
    ELSE IF ~env.globalFetch /\ ~env.nodeFetch
    THEN Some([pts |-> Num(0), reason |-> "LLM error (ignored)"])
    ELSE IF response.kind \in {"networkError", "badJson"}
    THEN Some([pts |-> Num(0), reason |-> "LLM error (ignored)"])
    ELSE LET n == clampFactor(contentOf(response))
         IN  IF n.nan
             THEN Some([pts |-> Num(0), reason |-> "LLM parse error (ignored)"])
             ELSE Some([pts |-> Num(n.v * cfg.weight),
                        reason |-> "LLM factor=" \o factorText(n)])

\* llmBoostScore of the second script: import("node-fetch") is awaited
\* before the try, and n is not tested for NaN.
llmBoostScoreSecond(env, response, cfg) ==
    IF ~env.key THEN Some([pts |-> Num(0), reason |-> "LLM disabled (no API key)"])
    ELSE IF ~env.nodeFetch THEN None
    ELSE IF response.kind \in {"networkError", "badJson"}
    THEN Some([pts |-> Num(0), reason |-> "LLM error (ignored)"])
    ELSE LET n == clampFactor(contentOf(response))
         IN  Some([pts |-> IF n.nan THEN NaN ELSE Num(n.v * cfg.weight),
                   reason |-> "LLM factor=" \o factorText(n)])

\* total and +total.toFixed(2) of main: the other eight parts sum to other
\* (hundredths); the result is in hundredths.
llmTotal(other, llm) ==
    IF llm.pts.nan THEN NaN ELSE Num(RoundDiv(100 * other + llm.pts.v, 100))

\* rows.sort((a, b) => b.total - a.total) when a total may be NaN: the
\* comparator is then not consistent and the order is implementation-defined.
sortedRows(list) ==
    IF \E i \in 1..Len(list) : list[i].totalIsNaN
    THEN {[i \in 1..Len(list) |-> list[p[i]]] : p \in Permutations(1..Len(list))}
    ELSE {sortRows(list)}

\* ------------------------------------------------------- inputs: texts

SeqsUpTo(S, n) == UNION {[1..k -> S] : k \in 0..n}

RECURSIVE JoinWords(_)
JoinWords(ws) ==
    IF ws = <<>> THEN <<>>
    ELSE IF Len(ws) = 1 THEN ws[1]
    ELSE ws[1] \o <<" ">> \o JoinWords(Tail(ws))

Go == <<"g", "o">>
Going == <<"g", "o", "i", "n", "g">>
Golang == <<"g", "o", "l", "a", "n", "g">>
Js == <<"j", "s">>
English == <<"e", "n", "g", "l", "i", "s", "h">>
Arabic == <<"a", "r", "a", "b", "i", "c">>
French == <<"f", "r", "e", "n", "c", "h">>

\* The engine's variables are idle while a single function is under check.
BatchIdle ==
    /\ files = <<>>
    /\ idx = 0
    /\ rows = <<>>
    /\ outputs = {}
    /\ exitCode = Null

\* ------------------------------------------- specification: hasSkill alone

MatchAlphabet == {"g", "o", "_", " "}
TermAlphabet == {"g", "o", "G"}

MatchTexts ==
    SeqsUpTo(MatchAlphabet, MaxTextLen)
        \cup {Going, <<"G", "o">>, <<"g", "o", "1">>, <<"g", "o", "-", "g", "o">>,
              <<"U+00E9", "g", "o">>, JoinWords(<<Go, Golang>>)}

MatchTerms == SeqsUpTo(TermAlphabet, MaxTermLen)

MatchInit ==
    /\ pc = "call"
    /\ arg \in [fn : {"hasSkill"}, text : MatchTexts, skill : MatchTerms]
    /\ res = Null
    /\ BatchIdle

HasSkillCall ==
    /\ pc = "call"
    /\ arg.fn = "hasSkill"
    /\ res' = hasSkill(arg.text, arg.skill)
    /\ pc' = "done"
    /\ UNCHANGED <<arg, files, idx, rows, outputs, exitCode>>

MatchNext == HasSkillCall

SpecMatch == MatchInit /\ [][MatchNext]_vars

\* --------------------- specification: hasSkill on names with . and +

SpecialSkills == {<<"c", "+", "+">>, <<".", "n", "e", "t">>, <<"n", "o", "d", "e", ".", "j", "s">>}

\* The words of a text: the names themselves (one capitalized), and words
\* that are only part of a name.
TokenWords ==
    SpecialSkills \cup {<<"C", "+", "+">>, <<"c">>, <<"n", "e", "t">>, <<"j", "s">>}

TokensInit ==
    /\ pc = "call"
    /\ arg \in [fn : {"hasSkill"},
                text : {JoinWords(ws) : ws \in SeqsUpTo(TokenWords, MaxItems)},
                skill : SpecialSkills]
    /\ res = Null
    /\ BatchIdle

SpecTokens == TokensInit /\ [][MatchNext]_vars

\* ------------------------- specification: skill and language requirements

SkillTexts ==
    {<<>>, Go, Golang, Js, JoinWords(<<Go, Js>>), JoinWords(<<Golang, Js>>),
     JoinWords(<<Go, Golang>>)}

SkillItems ==
    [name : {Go, Js},
     alternatives : {<<>>, <<Js, Golang>>},
     weight : {0, 1, 2, 1000}]

LangTexts == {JoinWords(ws) : ws \in SeqsUpTo({English, Arabic, French}, 2)}

LangGroups ==
    {<<>>, <<English>>, <<Arabic>>, <<French>>, <<Arabic, French>>,
     <<English, Arabic>>}

SkillsInit ==
    /\ pc = "call"
    /\ arg \in [fn : {"scoreSkills"}, text : SkillTexts,
                list : SeqsUpTo(SkillItems, MaxItems)]
           \cup [fn : {"scoreLanguages"}, text : LangTexts,
                 cfg : [mustAny : SeqsUpTo(LangGroups, MaxItems),
                        weight : {0, 500}]]
    /\ res = Null
    /\ BatchIdle

\* The main loop's scoring of the required skills and its missing list.
MustSkillsCall ==
    /\ pc = "call"
    /\ arg.fn = "scoreSkills"
    /\ LET mustSkills == scoreSkills(arg.text, arg.list)
       IN  res' = [mustSkills |-> mustSkills,
                   missingMust |-> missingMust(mustSkills.details, arg.list)]
    /\ pc' = "done"
    /\ UNCHANGED <<arg, files, idx, rows, outputs, exitCode>>

LanguagesCall ==
    /\ pc = "call"
    /\ arg.fn = "scoreLanguages"
    /\ res' = scoreLanguages(arg.text, arg.cfg)
    /\ pc' = "done"
    /\ UNCHANGED <<arg, files, idx, rows, outputs, exitCode>>

SkillsNext == MustSkillsCall \/ LanguagesCall

SpecSkills == SkillsInit /\ [][SkillsNext]_vars

\* ---------------------------------------- specification: monthsBetween

\* The years an endpoint can carry before clamping: NaN, and years below,
\* inside and above the clamp.
RawYears ==
    {None} \cup {Some(y) : y \in (YearMin - 1)..(YearMin + YearSpan)
                               \cup 2021..(2021 + YearSpan)
                               \cup (YearMax - YearSpan)..(YearMax + 1)}

RawMonthYears == [y : RawYears, m : 0..11]

DatesInit ==
    /\ pc = "call"
    /\ arg \in [fn : {"monthsBetween"}, from : RawMonthYears, to : RawMonthYears]
    /\ res = Null
    /\ BatchIdle

\* The two endpoints as extractRanges clamps them, and the months
\* sumExperienceMonths counts between them.
MonthsBetweenCall ==
    /\ pc = "call"
    /\ arg.fn = "monthsBetween"
    /\ LET from == clampMonthYear(Some(arg.from))[1]
           to == clampMonthYear(Some(arg.to))[1]
       IN  res' = [from |-> from, to |-> to, months |-> monthsBetween(from, to)]
    /\ pc' = "done"
    /\ UNCHANGED <<arg, files, idx, rows, outputs, exitCode>>

DatesNext == MonthsBetweenCall

SpecDates == DatesInit /\ [][DatesNext]_vars

\* ---------------------------------- specification: scoreExperienceBlock

LineFullTime ==
    <<"s", "o", "f", "t", "w", "a", "r", "e", " ", "e", "n", "g", "i", "n",
      "e", "e", "r", ",", " ", "f", "u", "l", "l", "-", "t", "i", "m", "e",
      ",", " ", "j", "a", "n", " ", "2", "0", "2", "1", " ", "-", " ", "d",
      "e", "c", " ", "2", "0", "2", "2">>

LineIntern ==
    <<"i", "n", "t", "e", "r", "n", ",", " ", "j", "a", "n", " ", "2", "0",
      "2", "1", " ", "-", " ", "m", "a", "r", " ", "2", "0", "2", "1">>

LineBackwards ==
    <<"2", "0", "2", "3", " ", "-", " ", "2", "0", "2", "1", " ", "c", "o",
      "n", "t", "r", "a", "c", "t">>

LineNumeric ==
    <<"0", "5", "/", "2", "0", "2", "2", " ", "-", " ", "1", "0", "/", "2",
      "0", "2", "3">>

LineNoDates ==
    <<"s", "k", "i", "l", "l", "s", ":", " ", "g", "o", ",", " ", "j", "s">>

ExperienceLines ==
    {LineFullTime, LineIntern, LineBackwards, LineNumeric, LineNoDates}

RECURSIVE JoinLines(_)
JoinLines(lines) ==
    IF lines = <<>> THEN <<>>
    ELSE IF Len(lines) = 1 THEN lines[1]
    ELSE lines[1] \o <<"\n">> \o JoinLines(Tail(lines))

DefaultPresentWords ==
    <<<<"p", "r", "e", "s", "e", "n", "t">>,
      <<"c", "u", "r", "r", "e", "n", "t">>, <<"n", "o", "w">>>>

\* cfg.experience: minYears in tenths of a year (0 when missing), weight in
\* hundredths of a point, weightsByType in tenths ({} when missing).
ExperienceConfigs ==
    [minYears : {0, 5, 10, 30},
     weight : {1000},
     weightsByType :
         {<<>>,
          [t \in {"fulltime", "internship", "contract"} |->
              IF t = "fulltime" THEN 10 ELSE IF t = "internship" THEN 5 ELSE 0]},
     presentWords : {DefaultPresentWords}]

ExperienceInit ==
    /\ pc = "call"
    /\ arg \in [fn : {"scoreExperienceBlock"},
                lines : SeqsUpTo(ExperienceLines, MaxLines),
                extra : ExperienceLines,
                cfg : ExperienceConfigs,
                now : {[y |-> 2024, m |-> 5]}]
    /\ res = Null
    /\ BatchIdle

\* scoreExperienceBlock on a text, and on the text with one more line.
ExperienceCall ==
    /\ pc = "call"
    /\ arg.fn = "scoreExperienceBlock"
    /\ res' = [base |-> scoreExperienceBlock(JoinLines(arg.lines), arg.cfg, arg.now),
               more |-> scoreExperienceBlock(
                            JoinLines(Append(arg.lines, arg.extra)), arg.cfg, arg.now)]
    /\ pc' = "done"
    /\ UNCHANGED <<arg, files, idx, rows, outputs, exitCode>>

ExperienceNext == ExperienceCall

SpecExperience == ExperienceInit /\ [][ExperienceNext]_vars

\* ---------------------------------------- specification: extractRanges

\* The line of one dated role, written from its parts: each endpoint is an
\* optional month name and a token, a bare year, mm/yyyy, mm-yy, or (for
\* the end) a present-class word.
DigitChar(d) == <<"0", "1", "2", "3", "4", "5", "6", "7", "8", "9">>[d + 1]

TwoDigits(n) == <<DigitChar((n \div 10) % 10), DigitChar(n % 10)>>

FourDigits(n) == TwoDigits(n \div 100) \o TwoDigits(n % 100)

Capitalized(word) ==
    [k \in 1..Len(word) |->
        IF k = 1 /\ word[k] \in DOMAIN UpperOf THEN UpperOf[word[k]] ELSE word[k]]

MonthChoices == {None, Some([idx |-> 0, abbr |-> TRUE]), Some([idx |-> 8, abbr |-> FALSE])}

NumericTokens(year) ==
    {[kind |-> "numeric", mm |-> 5, sep |-> "/", short |-> FALSE, y |-> year],
     [kind |-> "numeric", mm |-> 5, sep |-> "-", short |-> TRUE, y |-> year],
     [kind |-> "numeric", mm |-> 10, sep |-> "/", short |-> FALSE, y |-> year]}

YearTokens(year) ==
    {[kind |-> "year", mm |-> 1, sep |-> "/", short |-> FALSE, y |-> y] :
        y \in year..(year + YearSpan)}

PresentTokens ==
    {[kind |-> "present", word |-> w] : w \in Range(DefaultPresentWords)}

TokenText(tok) ==
    IF tok.kind = "present" THEN Capitalized(tok.word)
    ELSE IF tok.kind = "year" THEN FourDigits(tok.y)
    ELSE TwoDigits(tok.mm) \o <<tok.sep>>
            \o (IF tok.short THEN TwoDigits(tok.y % 100) ELSE FourDigits(tok.y))

EndpointText(mon, tok) ==
    (IF mon = None THEN <<>>
     ELSE Capitalized(IF mon[1].abbr THEN MONTH_ABBR[mon[1].idx + 1]
                      ELSE MONTHS[mon[1].idx + 1]) \o <<" ">>)
        \o TokenText(tok)

RangeLine(a) ==
    EndpointText(a.fromMon, a.fromTok) \o <<" ">> \o a.dash \o <<" ">>
        \o EndpointText(a.toMon, a.toTok)

RangesInit ==
    /\ pc = "call"
    /\ \E fromMon \in MonthChoices, toMon \in MonthChoices,
          fromTok \in YearTokens(2020) \cup NumericTokens(2022),
          toTok \in YearTokens(2023) \cup NumericTokens(2023) \cup PresentTokens,
          dash \in {<<"-">>, <<"t", "o">>},
          presentWords \in {DefaultPresentWords, <<DefaultPresentWords[1]>>} :
              arg = [fn |-> "extractRanges", fromMon |-> fromMon,
                     fromTok |-> fromTok, toMon |-> toMon, toTok |-> toTok,
                     dash |-> dash, presentWords |-> presentWords,
                     now |-> [y |-> 2024, m |-> 5]]
    /\ res = Null
    /\ BatchIdle

\* extractRanges on the line, and the months sumExperienceMonths counts
\* for what it returned.
ExtractRangesCall ==
    /\ pc = "call"
    /\ arg.fn = "extractRanges"
    /\ res' = extractRanges(RangeLine(arg), arg.presentWords, arg.now)
    /\ pc' = "done"
    /\ UNCHANGED <<arg, files, idx, rows, outputs, exitCode>>

RangesNext == ExtractRangesCall

SpecRanges == RangesInit /\ [][RangesNext]_vars

\* ------------------------------- specification: the type of a range

\* Words a line may hold, each with the employment types whose keyword
\* set (re.classify) lists it; "internal" and "engineer" are in none.
Keywords ==
    {[word |-> <<"i", "n", "t", "e", "r", "n">>,
      labels |-> {"internship"}],
     [word |-> <<"p", "a", "r", "t", "-", "t", "i", "m", "e">>,
      labels |-> {"parttime"}],
     [word |-> <<"c", "o", "n", "t", "r", "a", "c", "t", "o", "r">>,
      labels |-> {"freelance", "contract"}],
     [word |-> <<"c", "o", "n", "t", "r", "a", "c", "t">>,
      labels |-> {"contract"}],
     [word |-> <<"f", "u", "l", "l", " ", "t", "i", "m", "e">>,
      labels |-> {"fulltime"}],
     [word |-> <<"p", "e", "r", "m", "a", "n", "e", "n", "t">>,
      labels |-> {"fulltime"}],
     [word |-> <<"s", "e", "l", "f", "-", "e", "m", "p", "l", "o", "y", "e", "d">>,
      labels |-> {"freelance"}],
     [word |-> <<"i", "n", "t", "e", "r", "n", "a", "l">>,
      labels |-> {}],
     [word |-> <<"e", "n", "g", "i", "n", "e", "e", "r">>,
      labels |-> {}]}

DatedLine(keywords) ==
    JoinWords([k \in 1..Len(keywords) |-> keywords[k].word]
              \o <<<<"2", "0", "2", "0", " ", "-", " ", "2", "0", "2", "1">>>>)

\* A role of up to MaxItems keywords, after a neighbouring line that is
\* absent, undated, or a dated role of its own.
ClassifyText(a) ==
    IF a.neighbour = None THEN DatedLine(a.keywords)
    ELSE JoinLines(<<IF a.neighbour[1].dated
                     THEN DatedLine(<<a.neighbour[1].keyword>>)
                     ELSE a.neighbour[1].keyword.word,
                     DatedLine(a.keywords)>>)

Neighbours ==
    {None} \cup {Some([keyword |-> w, dated |-> (w.labels = {"parttime"})]) :
                    w \in {k \in Keywords : k.labels \in {{"internship"}, {"parttime"}}}}

ClassifyInit ==
    /\ pc = "call"
    /\ arg \in [fn : {"classify"},
                keywords : SeqsUpTo(Keywords, MaxItems),
                neighbour : Neighbours]
    /\ res = Null
    /\ BatchIdle

ClassifyCall ==
    /\ pc = "call"
    /\ arg.fn = "classify"
    /\ res' = extractRanges(ClassifyText(arg), DefaultPresentWords,
                            [y |-> 2024, m |-> 5])
    /\ pc' = "done"
    /\ UNCHANGED <<arg, files, idx, rows, outputs, exitCode>>

ClassifyNext == ClassifyCall

SpecClassify == ClassifyInit /\ [][ClassifyNext]_vars

\* ------------------------------- specification: scoreLocationPresence

LineRiyadh ==
    <<"r", "i", "y", "a", "d", "h", ",", " ", "2", "0", "2", "0", " ", "-",
      " ", "2", "0", "2", "1">>

LineDubai ==
    <<"d", "u", "b", "a", "i", " ", "0", "1", "/", "2", "0", "2", "3", " ",
      "-", " ", "0", "3", "/", "2", "0", "2", "3">>

LineAmman ==
    <<"a", "m", "m", "a", "n", ",", " ", "2", "0", "2", "2", " ", "-", " ",
      "2", "0", "2", "2">>

LineBased ==
    <<"b", "a", "s", "e", "d", " ", "i", "n", " ", "r", "i", "y", "a", "d",
      "h">>

LineRemote ==
    <<"2", "0", "1", "9", " ", "-", " ", "2", "0", "1", "9", " ", "r", "e",
      "m", "o", "t", "e">>

LocationLines == {LineRiyadh, LineDubai, LineAmman, LineBased, LineRemote}

\* cfg.location: no required term, one, two (one capitalized), and a term
\* that is part of a place's name.
RequiredLists ==
    {<<>>,
     <<<<"r", "i", "y", "a", "d", "h">>>>,
     <<<<"D", "u", "b", "a", "i">>, <<"r", "i", "y", "a", "d", "h">>>>,
     <<<<"m", "a", "n">>>>}

LocationInit ==
    /\ pc = "call"
    /\ arg \in [fn : {"scoreLocationPresence"},
                lines : SeqsUpTo(LocationLines, MaxLines + 1),
                cfg : [requiredAny : RequiredLists, weight : {500},
                       countMonthsInRequired : BOOLEAN]]
    /\ res = Null
    /\ BatchIdle

\* scoreLocationPresence on a text and the ranges extracted from it.
LocationCall ==
    /\ pc = "call"
    /\ arg.fn = "scoreLocationPresence"
    /\ res' = [ranges |-> extractRanges(JoinLines(arg.lines), DefaultPresentWords,
                                        [y |-> 2024, m |-> 5]),
               location |->
                   scoreLocationPresence(
                       JoinLines(arg.lines), arg.cfg,
                       extractRanges(JoinLines(arg.lines), DefaultPresentWords,
                                     [y |-> 2024, m |-> 5]))]
    /\ pc' = "done"
    /\ UNCHANGED <<arg, files, idx, rows, outputs, exitCode>>

LocationNext == LocationCall

SpecLocation == LocationInit /\ [][LocationNext]_vars

\* ------------------------------------------- specification: findLinks

\* The words of a raw text: whether the word is a http(s) URL, whether it
\* is a LinkedIn profile or GitHub URL (linkedin.com/..., github.com/...),
\* and whether it holds portfolio, resume, cv, personal or about.
LinkWords ==
    {[text |-> <<"h", "t", "t", "p", "s", ":", "/", "/", "a", ".", "d", "e",
                "v", "/", "c", "v">>,
      url |-> TRUE, profile |-> FALSE, portfolio |-> TRUE],
     [text |-> <<"h", "t", "t", "p", ":", "/", "/", "b", ".", "i", "o">>,
      url |-> TRUE, profile |-> FALSE, portfolio |-> FALSE],
     [text |-> <<"h", "t", "t", "p", "s", ":", "/", "/", "g", "i", "t",
                "h", "u", "b", ".", "c", "o", "m", "/", "x">>,
      url |-> TRUE, profile |-> TRUE, portfolio |-> FALSE],
     [text |-> <<"h", "t", "t", "p", "s", ":", "/", "/", "w", "w", "w",
                ".", "l", "i", "n", "k", "e", "d", "i", "n", ".", "c", "o",
                "m", "/", "i", "n", "/", "x">>,
      url |-> TRUE, profile |-> TRUE, portfolio |-> FALSE],
     [text |-> <<"h", "t", "t", "p", "s", ":", "/", "/", "x", ".", "g",
                "i", "t", "h", "u", "b", ".", "i", "o">>,
      url |-> TRUE, profile |-> FALSE, portfolio |-> FALSE],
     [text |-> <<"H", "T", "T", "P", ":", "/", "/", "C", ".", "O", "R",
                "G", "/", "A", "b", "o", "u", "t">>,
      url |-> TRUE, profile |-> FALSE, portfolio |-> TRUE],
     [text |-> <<"s", "e", "e">>,
      url |-> FALSE, profile |-> FALSE, portfolio |-> FALSE]}

LinksInit ==
    /\ pc = "call"
    /\ arg \in [fn : {"findLinks"}, words : SeqsUpTo(LinkWords, MaxItems)]
    /\ res = Null
    /\ BatchIdle

FindLinksCall ==
    /\ pc = "call"
    /\ arg.fn = "findLinks"
    /\ res' = findLinks(JoinWords([k \in 1..Len(arg.words) |-> arg.words[k].text]))
    /\ pc' = "done"
    /\ UNCHANGED <<arg, files, idx, rows, outputs, exitCode>>

LinksNext == FindLinksCall

SpecLinks == LinksInit /\ [][LinksNext]_vars

\* ------------------------------------- specification: the engine's batch

RawStrong ==
    <<"G", "o", " ", "J", "S", " ", "E", "n", "g", "l", "i", "s", "h", "\n",
      "S", "o", "f", "t", "w", "a", "r", "e", " ", "E", "n", "g", "i", "n",
      "e", "e", "r", ",", " ", "F", "u", "l", "l", "-", "t", "i", "m", "e",
      ",", " ", "J", "a", "n", " ", "2", "0", "2", "1", " ", "U+2013", " ",
      "D", "e", "c", " ", "2", "0", "2", "2">>

RawMid ==
    <<"G", "o", ",", " ", "E", "n", "g", "l", "i", "s", "h", "\n", "I", "n",
      "t", "e", "r", "n", ",", " ", "J", "a", "n", " ", "2", "0", "2", "1",
      " ", "-", " ", "M", "a", "r", " ", "2", "0", "2", "1", ",", " ", "R",
      "i", "y", "a", "d", "h">>

RawWeak == Golang

\* The documents glob() can find under ./cvs.
Documents ==
    {[base |-> "a.txt", ext |-> ".txt", readable |-> TRUE, corrupt |-> FALSE,
      raw |-> RawStrong],
     [base |-> "b.md", ext |-> ".md", readable |-> TRUE, corrupt |-> FALSE,
      raw |-> RawStrong],
     [base |-> "c.pdf", ext |-> ".pdf", readable |-> TRUE, corrupt |-> TRUE,
      raw |-> <<>>],
     [base |-> "d.docx", ext |-> ".docx", readable |-> TRUE, corrupt |-> FALSE,
      raw |-> RawWeak],
     [base |-> "e.pdf", ext |-> ".pdf", readable |-> TRUE, corrupt |-> FALSE,
      raw |-> RawMid],
     [base |-> "f.txt", ext |-> ".txt", readable |-> FALSE, corrupt |-> FALSE,
      raw |-> <<>>]}

DistinctSeqs(S, n) ==
    {q \in SeqsUpTo(S, n) : \A i, j \in 1..Len(q) : i # j => q[i] # q[j]}

\* scoring.config.json
EngineConfig ==
    [mustSkills |-> <<[name |-> Go, alternatives |-> <<Golang>>, weight |-> 1000],
                      [name |-> Js, alternatives |-> <<>>, weight |-> 500]>>,
     niceSkills |-> <<[name |-> Golang, alternatives |-> <<>>, weight |-> 200]>>,
     experience |-> [minYears |-> 10, weight |-> 1000,
                     weightsByType |-> [t \in {"internship"} |-> 5],
                     presentWords |-> DefaultPresentWords],
     location |-> [requiredAny |-> <<<<"r", "i", "y", "a", "d", "h">>>>,
                   weight |-> 500, countMonthsInRequired |-> TRUE],
     languages |-> [mustAny |-> <<<<English>>>>, weight |-> 500]]

Init ==
    /\ pc = "start"
    /\ arg \in [configExists : BOOLEAN, cfg : {EngineConfig},
                now : {[y |-> 2024, m |-> 5]}]
    /\ res = Null
    /\ files \in DistinctSeqs(Documents, MaxFiles)
    /\ idx = 0
    /\ rows = <<>>
    /\ outputs = {}
    /\ exitCode = Null

\* main, up to the loop: no configuration is fatal, no document is not.
Startup ==
    /\ pc = "start"
    /\ IF ~arg.configExists THEN pc' = "exited" /\ exitCode' = 1
       ELSE IF files = <<>> THEN pc' = "exited" /\ exitCode' = 0
       ELSE pc' = "loop" /\ exitCode' = exitCode
    /\ UNCHANGED <<arg, res, files, idx, rows, outputs>>

\* One turn of the loop.  extractText is awaited with no try around it: a
\* rejection leaves the loop and reaches main's catch, which exits with 1.
ProcessFile ==
    /\ pc = "loop"
    /\ idx < Len(files)
    /\ LET doc == files[idx + 1]
           raw == extractText(doc)
       IN  IF raw = None
           THEN /\ pc' = "exited"
                /\ exitCode' = 1
                /\ UNCHANGED <<idx, rows, outputs>>
           ELSE /\ rows' = Append(rows, scoreDocument(doc.base, raw[1], arg.cfg, arg.now))
                /\ outputs' = outputs \cup {doc.base \o ".md"}
                /\ idx' = idx + 1
                /\ UNCHANGED <<pc, exitCode>>
    /\ UNCHANGED <<arg, res, files>>

\* rank & export, then the process ends.
RankAndExport ==
    /\ pc = "loop"
    /\ idx = Len(files)
    /\ rows' = sortRows(rows)
    /\ outputs' = outputs \cup {"results.csv", "results.json"}
    /\ pc' = "exited"
    /\ exitCode' = 0
    /\ UNCHANGED <<arg, res, files, idx>>

Next == Startup \/ ProcessFile \/ RankAndExport

Spec == Init /\ [][Next]_vars

\* --------------------------------- specification: score-cvs.mjs' batch

LlmResponses ==
    {[kind |-> "networkError", content |-> <<>>],
     [kind |-> "badJson", content |-> <<>>],
     [kind |-> "noChoices", content |-> <<>>],
     [kind |-> "content", content |-> <<"0", ".", "5">>],
     [kind |-> "content", content |-> <<"1", ".", "5">>],
     [kind |-> "content", content |-> <<"n", "/", "a">>]}

\* The k-th file; other is what the eight heuristic parts give it, in
\* hundredths (the same for every candidate here).
LlmFiles ==
    {[k \in 1..Len(q) |-> [base |-> "cv" \o ToString(k) \o ".txt",
                           other |-> 1200,
                           response |-> q[k]]] : q \in SeqsUpTo(LlmResponses, MaxFiles)}

LlmInit ==
    /\ pc = "loop"
    /\ arg \in [variant : {1, 2},
                env : [key : BOOLEAN, globalFetch : BOOLEAN, nodeFetch : BOOLEAN],
                cfg : {[enabledEnvVar |-> "OPENAI_API_KEY", weight |-> 1000]}]
    /\ res = <<>>
    /\ files \in LlmFiles
    /\ idx = 0
    /\ rows = <<>>
    /\ outputs = {}
    /\ exitCode = Null

\* One turn of main's loop: llmBoostScore is awaited bare, so its rejection
\* reaches main().catch and the process exits with 1.
LlmProcessFile ==
    /\ pc = "loop"
    /\ idx < Len(files)
    /\ LET f == files[idx + 1]
           llm == IF arg.variant = 1
                  THEN llmBoostScore(arg.env, f.response, arg.cfg)
                  ELSE llmBoostScoreSecond(arg.env, f.response, arg.cfg)
       IN  IF llm = None
           THEN /\ pc' = "exited"
                /\ exitCode' = 1
                /\ UNCHANGED <<res, idx, rows, outputs>>
           ELSE LET total == llmTotal(f.other, llm[1])
                IN  /\ rows' = Append(rows, [candidate |-> f.base,
                                             total |-> total.v,
                                             totalIsNaN |-> total.nan])
                    /\ res' = Append(res, llm[1])
                    /\ outputs' = outputs \cup {f.base \o ".md"}
                    /\ idx' = idx + 1
                    /\ UNCHANGED <<pc, exitCode>>
    /\ UNCHANGED <<arg, files>>

LlmRankAndExport ==
    /\ pc = "loop"
    /\ idx = Len(files)
    /\ rows' \in sortedRows(rows)
    /\ outputs' = outputs \cup {"results.csv"}
    /\ pc' = "exited"
    /\ exitCode' = 0
    /\ UNCHANGED <<arg, res, files, idx>>

LlmNext == LlmProcessFile \/ LlmRankAndExport

SpecLlm == LlmInit /\ [][LlmNext]_vars

\* =================================================================
\* Claims
\* =================================================================

CalledFn(fn) == pc = "done" /\ arg.fn = fn

\* The value of scoreSkills' pts after the first i items, and what item i
\* added to it (thousandths of a point).
PtsAfter(i) == scoreSkills(arg.text, SubSeq(arg.list, 1, i)).pts
Added(i) == PtsAfter(i) - PtsAfter(i - 1)

\* C7 as stated: for every weight >= 0, an item matched by its main name
\* is reported strictly more points than a same-weight item matched only by
\* an alternative, in the accumulated total and in the per-item pts of
\* details, and an unmatched item is reported exactly 0.
C7_MainAboveAlternative_AnyWeight ==
    CalledFn("scoreSkills") =>
        \A i, j \in 1..Len(arg.list) :
            LET di == res.mustSkills.details[i]
                dj == res.mustSkills.details[j]
            IN  /\ (di.matched = "none") => (Added(i) = 0 /\ di.pts = 0)
                /\ (/\ di.matched = "main"
                    /\ dj.matched = "alternative"
                    /\ di.weight = dj.weight)
                   => (Added(i) > Added(j) /\ di.pts > dj.pts)

\* C7 as amended: for every weight > 0 the main match adds strictly more to
\* the accumulated total than a same-weight alternative-only match; the
\* per-item pts of details, rounded to two decimals, are never smaller and
\* are strictly greater from a weight of 0.02 on; no match is exactly 0 in
\* both, and the total is the sum of what the items added.
C7_MainAboveAlternative ==
    CalledFn("scoreSkills") =>
        /\ res.mustSkills.pts = PtsAfter(Len(arg.list))
        /\ \A i, j \in 1..Len(arg.list) :
            LET di == res.mustSkills.details[i]
                dj == res.mustSkills.details[j]
            IN  /\ (di.matched = "none") => (Added(i) = 0 /\ di.pts = 0)
                /\ (/\ di.matched = "main"
                    /\ dj.matched = "alternative"
                    /\ di.weight = dj.weight)
                   => /\ (di.weight > 0) => (Added(i) > Added(j))
                      /\ 10 * Added(j) = 6 * Added(i)
                      /\ di.pts >= dj.pts
                      /\ (di.weight >= 2) => (di.pts > dj.pts)

\* C7 witness: a scored list holding a main match and an alternative-only
\* match of the same positive weight.
C7_Witness ==
    /\ CalledFn("scoreSkills")
    /\ \E i, j \in 1..Len(arg.list) :
          /\ res.mustSkills.details[i].matched = "main"
          /\ res.mustSkills.details[j].matched = "alternative"
          /\ arg.list[i].weight = arg.list[j].weight
          /\ arg.list[i].weight = 1000
          /\ res.mustSkills.details[i].pts = 1000
          /\ res.mustSkills.details[j].pts = 600

\* C8: scoreLanguages reports ok and the configured weight exactly when
\* every OR-group has a member that whole-word matches the text, else not
\* ok and 0 points; the groups [[english],[arabic,french]] are satisfied by
\* a text holding only english and french.
C8_LanguagesAllGroups ==
    CalledFn("scoreLanguages") =>
        LET groups == arg.cfg.mustAny
            satisfied ==
                \A g \in 1..Len(groups) :
                    \E m \in 1..Len(groups[g]) : hasSkill(arg.text, groups[g][m])
        IN  /\ res.ok = satisfied
            /\ res.pts = IF satisfied THEN arg.cfg.weight ELSE 0
            /\ (/\ arg.text = JoinWords(<<English, French>>)
                /\ groups = <<<<English>>, <<Arabic, French>>>>)
               => res.ok

\* C8 witness: the example's groups, satisfied through the second member of
\* the second group, and paid the configured weight.
C8_Witness ==
    /\ CalledFn("scoreLanguages")
    /\ arg.text = JoinWords(<<English, French>>)
    /\ arg.cfg.mustAny = <<<<English>>, <<Arabic, French>>>>
    /\ arg.cfg.weight = 500
    /\ res.ok
    /\ res.pts = 500

\* The missing list C9 describes: the items whose detail is matched "none",
\* in rubric order, each with its own configured alternatives.
RECURSIVE OwnMissing(_, _)
OwnMissing(details, list) ==
    IF list = <<>> THEN <<>>
    ELSE LET rest == OwnMissing(Tail(details), Tail(list))
         IN  IF Head(details).matched = "none"
             THEN <<[skill |-> Head(list).name,
                     alternativesAvailable |-> Head(list).alternatives]>> \o rest
             ELSE rest

\* C9 as stated: a must-skill whose name is unmatched and one of whose
\* alternatives is matched has matched "alternative" and a non-null altHit;
\* the missing list holds exactly the must-skills with matched "none", each
\* with that item's configured alternatives.
C9_MissingMustOwnAlternatives ==
    CalledFn("scoreSkills") =>
        /\ \A i \in 1..Len(arg.list) :
              (/\ ~hasSkill(arg.text, arg.list[i].name)
               /\ \E a \in 1..Len(arg.list[i].alternatives) :
                     hasSkill(arg.text, arg.list[i].alternatives[a]))
              => /\ res.mustSkills.details[i].matched = "alternative"
                 /\ res.mustSkills.details[i].altHit # None
        /\ res.missingMust = OwnMissing(res.mustSkills.details, arg.list)

\* C10: for a term of letters and digits, hasSkill is true only if the text
\* holds an occurrence of the term (ignoring case) with no letter, digit or
\* underscore right before it or right after it; "go" is not found in
\* "going".
IsAlnum(c) == IsWordChar(c) /\ c # "_"

C10_WholeWordOnly ==
    CalledFn("hasSkill") =>
        /\ (/\ arg.skill # <<>>
            /\ \A k \in 1..Len(arg.skill) : IsAlnum(arg.skill[k])
            /\ res)
           => \E i \in 1..Len(arg.text) :
                 /\ LiteralAt(arg.text, arg.skill, i)
                 /\ ~IsWordAt(arg.text, i - 1)
                 /\ ~IsWordAt(arg.text, i + Len(arg.skill))
        /\ (arg.text = Going /\ arg.skill = Go) => ~res

\* C10 witness: "go" looked up in "going" and rejected.
C10_Witness ==
    /\ CalledFn("hasSkill")
    /\ arg.text = Going
    /\ arg.skill = Go
    /\ res = FALSE

\* What scoreExperienceBlock summed over the ranges it returned.
WeightedMonths(r) ==
    sumExperienceMonths(r.ranges, arg.cfg.weightsByType).totalWeightedMonths

\* C4 as stated: for every minYears > 0, fractions below 1 included, the
\* experience points are min(1, years / minYears) x weight with years =
\* totalWeightedMonths / 12 (as reported, to two decimals); for minYears 0
\* or missing they are the full weight.
C4_CreditIsYearsOverMinYears ==
    CalledFn("scoreExperienceBlock") =>
        LET total == WeightedMonths(res.more)
            minYears == arg.cfg.minYears
        IN  res.more.pts =
                IF minYears = 0 \/ total >= 12 * minYears
                THEN arg.cfg.weight
                ELSE RoundDiv(total * arg.cfg.weight, 12 * minYears)

\* C5: with type weights that are not negative, one more date range never
\* lowers the credit fraction nor the points; the fraction is exactly 1 and
\* the points are the configured weight once the weighted years reach
\* minYears; the full-time line Jan 2021 - Dec 2022 with fulltime 1.0,
\* minYears 1 and weight 10 counts 24 months and is paid 10 points.
C5_CreditMonotoneAndSaturating ==
    CalledFn("scoreExperienceBlock") =>
        LET okBase == experienceOk(WeightedMonths(res.base), arg.cfg.minYears)
            okMore == experienceOk(WeightedMonths(res.more), arg.cfg.minYears)
        IN  /\ Len(res.more.ranges) >= Len(res.base.ranges)
            /\ WeightedMonths(res.more) >= WeightedMonths(res.base)
            /\ okBase.num * okMore.den <= okMore.num * okBase.den
            /\ res.base.pts <= res.more.pts
            /\ res.more.pts <= arg.cfg.weight
            /\ (WeightedMonths(res.more) >= 12 * arg.cfg.minYears)
               => (okMore.num = okMore.den /\ res.more.pts = arg.cfg.weight)
            /\ (/\ arg.lines = <<>>
                /\ arg.extra = LineFullTime
                /\ arg.cfg.minYears = 10
                /\ arg.cfg.weight = 1000)
               => /\ res.more.byTypeMonths["fulltime"] = 24
                  /\ res.more.years = 200
                  /\ res.more.pts = 1000

\* C5 witness: the example line added to a text that was short of the
\* required year: the points rise to the full weight.
C5_Witness ==
    /\ CalledFn("scoreExperienceBlock")
    /\ arg.lines = <<LineIntern>>
    /\ arg.extra = LineFullTime
    /\ arg.cfg.minYears = 10
    /\ arg.cfg.weight = 1000
    /\ "fulltime" \in DOMAIN arg.cfg.weightsByType
    /\ res.base.pts < res.more.pts
    /\ res.more.byTypeMonths["fulltime"] = 24
    /\ res.more.pts = 1000

\* from is not after to in the calendar.
NotAfter(a, b) == a.y < b.y \/ (a.y = b.y /\ a.m <= b.m)

\* C6: on the clamped domain (years 1900..2200, months 0..11) monthsBetween
\* is (to.y - from.y) * 12 + (to.m - from.m) + 1, so it is at least 1 when
\* from is not after to and exactly 1 when they are the same month.
C6_MonthsBetweenInclusive ==
    CalledFn("monthsBetween") =>
        /\ res.from.y \in YearMin..YearMax /\ res.from.m \in 0..11
        /\ res.to.y \in YearMin..YearMax /\ res.to.m \in 0..11
        /\ res.months
               = (res.to.y - res.from.y) * 12 + (res.to.m - res.from.m) + 1
        /\ NotAfter(res.from, res.to) => res.months >= 1
        /\ (res.from = res.to) => res.months = 1
        /\ NotAfter(res.from, res.to) \/ res.months <= 0

\* C6 witness: a range within one month, and one spanning the whole domain.
C6_Witness ==
    /\ CalledFn("monthsBetween")
    /\ res.from = res.to
    /\ res.months = 1
    /\ arg.from.y = Some(YearMax + 1)

\* The engine ended a run that had a configuration and documents.
BatchEnded == pc = "exited" /\ arg.configExists /\ files # <<>>

\* C1 as stated: a document whose extraction throws never aborts the
\* engine's batch: every document gets its row (the bad one an empty text),
\* results.csv and results.json are written, and the exit status is 0.
C1_BadDocumentNeverAborts ==
    BatchEnded =>
        /\ exitCode = 0
        /\ Len(rows) = Len(files)
        /\ {"results.csv", "results.json"} \subseteq outputs

\* The place of a candidate in the order the batch met the documents.
Encounter(candidate) == CHOOSE k \in 1..Len(files) : files[k].base = candidate

\* C3: once ranked, the rows are the scored candidates, each once, in
\* non-increasing order of total, and candidates of equal total keep the
\* order in which the batch scored them.
C3_RankedStableDescending ==
    (BatchEnded /\ "results.json" \in outputs) =>
        /\ Len(rows) = Len(files)
        /\ \A k \in 1..Len(files) :
              \E i \in 1..Len(rows) :
                  rows[i] = scoreDocument(files[k].base, files[k].raw,
                                          arg.cfg, arg.now)
        /\ \A i, j \in 1..Len(rows) :
              i < j =>
                  /\ rows[i].total >= rows[j].total
                  /\ rows[i].total = rows[j].total
                     => Encounter(rows[i].candidate) < Encounter(rows[j].candidate)

\* C3 witness: b.md met before a.txt with the same total, a weaker
\* candidate met first: ranked b, a, d.
C3_Witness ==
    /\ BatchEnded
    /\ "results.json" \in outputs
    /\ Len(rows) = 3
    /\ rows[1].candidate = "b.md"
    /\ rows[2].candidate = "a.txt"
    /\ rows[3].candidate = "d.docx"
    /\ files[1].base = "d.docx"
    /\ rows[1].total = rows[2].total
    /\ rows[2].total > rows[3].total

\* The external call of file k did not yield a number.
LlmFailed(k) ==
    \/ ~arg.env.key
    \/ ~arg.env.nodeFetch /\ (arg.variant = 2 \/ ~arg.env.globalFetch)
    \/ files[k].response.kind # "content"
    \/ parseFloat(files[k].response.content) = None

\* C2 as stated: in both scripts llmBoostScore never rejects, so the batch
\* ends with status 0 and a report for every candidate; each result has a
\* non-empty reason and pts that is a number in [0, weight], and pts is 0
\* when the key is missing or the import, the call or the answer failed.
C2_LlmBoostNeverFails ==
    /\ pc = "exited" => exitCode = 0 /\ Len(res) = Len(files)
    /\ \A k \in 1..Len(res) :
          /\ ~res[k].pts.nan
          /\ res[k].reason # ""
          /\ res[k].pts.v >= 0
          /\ res[k].pts.v <= 100 * arg.cfg.weight
          /\ LlmFailed(k) => res[k].pts.v = 0

\* What an endpoint written as mon, tok stands for: the year of the token
\* (20yy for a two-digit one) and the month of the name if there is one,
\* else of the token, else January.
EndpointOf(mon, tok) ==
    [y |-> tok.y,
     m |-> IF mon # None THEN mon[1].idx
           ELSE IF tok.kind = "numeric" THEN tok.mm - 1 ELSE 0]

\* The end of the line is a present-class word that presentWords lists.
ListedPresent ==
    /\ arg.toTok.kind = "present"
    /\ arg.toTok.word \in Range(arg.presentWords)

\* "Jan 2020 - Present"
JanToPresent ==
    /\ arg.fromMon = Some([idx |-> 0, abbr |-> TRUE])
    /\ arg.fromTok.kind = "year"
    /\ arg.fromTok.y = 2020
    /\ arg.toMon = None
    /\ ListedPresent

C12_NumericAndBareEndpoints ==
    (CalledFn("extractRanges") /\ arg.toTok.kind # "present") =>
        /\ Len(res) = 1
        /\ res[1].from = EndpointOf(arg.fromMon, arg.fromTok)
        /\ res[1].to = EndpointOf(arg.toMon, arg.toTok)
        /\ (/\ arg.fromMon = None /\ arg.toMon = None
            /\ arg.fromTok = [kind |-> "numeric", mm |-> 5, sep |-> "/",
                              short |-> FALSE, y |-> 2022]
            /\ arg.toTok = [kind |-> "numeric", mm |-> 10, sep |-> "/",
                            short |-> FALSE, y |-> 2023])
           => /\ res[1].from = [y |-> 2022, m |-> 4]
              /\ res[1].to = [y |-> 2023, m |-> 9]
              /\ rangeMonths(res[1]) = 18

\* C12 witness: "05-22 - Sep 2023": a two-digit year after a hyphen, and a
\* month name before a bare year.
C12_Witness ==
    /\ CalledFn("extractRanges")
    /\ arg.fromMon = None
    /\ arg.fromTok.kind = "numeric" /\ arg.fromTok.short
    /\ arg.toMon # None /\ arg.toMon[1].idx = 8
    /\ arg.toTok.kind = "year"
    /\ Len(res) = 1
    /\ res[1].from = [y |-> 2022, m |-> 4]
    /\ res[1].to = [y |-> 2023, m |-> 8]

\* C13 as stated: a range whose end is a present-class word that
\* presentWords does not list has no year for that end, and is discarded:
\* extractRanges returns nothing for the line.
C13_UnresolvedYearDiscards ==
    (/\ CalledFn("extractRanges")
     /\ arg.toTok.kind = "present"
     /\ arg.toTok.word \notin Range(arg.presentWords))
        => res = <<>>

\* The types in the order of their priority.
TypePriority == <<"internship", "parttime", "freelance", "contract", "fulltime">>

\* The first type, in priority order, whose keyword set lists one of the
\* keywords; unspecified when there is none.
FirstLabel(keywords) ==
    LET labels == UNION {keywords[k].labels : k \in 1..Len(keywords)}
        hits == {p \in 1..Len(TypePriority) : TypePriority[p] \in labels}
    IN  IF hits = {} THEN "unspecified" ELSE TypePriority[Least(hits)]

\* C16: each extracted range gets exactly one type, the first in the order
\* internship, parttime, freelance, contract, fulltime whose keywords occur
\* on the range's own line, unspecified when none does; the words of a
\* neighbouring line do not count.
C16_TypeByLinePriority ==
    CalledFn("classify") =>
        LET own == res[Len(res)]
        IN  /\ Len(res) = (IF arg.neighbour # None /\ arg.neighbour[1].dated
                           THEN 2 ELSE 1)
            /\ own.line = DatedLine(arg.keywords)
            /\ own.type = FirstLabel(arg.keywords)
            /\ Len(res) = 2 => res[1].type = FirstLabel(<<arg.neighbour[1].keyword>>)

\* C16 witness: "permanent contractor 2020 - 2021" below an undated line
\* "intern": contractor is in the freelance and contract sets, permanent in
\* fulltime, and the range is freelance.
C16_Witness ==
    /\ CalledFn("classify")
    /\ Len(arg.keywords) = 2
    /\ arg.keywords[1].labels = {"fulltime"}
    /\ arg.keywords[2].labels = {"freelance", "contract"}
    /\ arg.neighbour # None
    /\ ~arg.neighbour[1].dated
    /\ arg.neighbour[1].keyword.labels = {"internship"}
    /\ Len(res) = 1
    /\ res[1].type = "freelance"

\* The sum of f[i] over the indices i of I.
RECURSIVE SumOver(_, _)
SumOver(f, I) ==
    IF I = {} THEN 0
    ELSE LET i == CHOOSE j \in I : TRUE IN f[i] + SumOver(f, I \ {i})

\* The months of range i of ranges, both ends counted, none when the end
\* is before the start.
CountedMonths(ranges) ==
    [i \in 1..Len(ranges) |->
        Max(0, (ranges[i].to.y - ranges[i].from.y) * 12
                   + (ranges[i].to.m - ranges[i].from.m) + 1)]

\* The configured weight of a type in tenths, 1.0 when it has none.
ConfiguredWeight(weights, type) ==
    IF type \in DOMAIN weights THEN weights[type] ELSE 10

\* C17: sumExperienceMonths adds every extracted range, merging nothing:
\* totalWeightedMonths is the sum over the ranges of the type's weight (1.0
\* without one) times the counted months, byTypeMonths[t] the unweighted
\* sum over the ranges of type t; equal or overlapping ranges count in
\* full each, and a range that ends before it starts counts 0.
C17_SumsEveryRange ==
    CalledFn("scoreExperienceBlock") =>
        LET ranges == res.more.ranges
            months == CountedMonths(ranges)
            weights == arg.cfg.weightsByType
            weighted == [i \in 1..Len(ranges) |->
                            ConfiguredWeight(weights, ranges[i].type) * months[i]]
            sums == sumExperienceMonths(ranges, weights)
        IN  /\ sums.totalWeightedMonths = SumOver(weighted, 1..Len(ranges))
            /\ res.more.years = RoundDiv(sums.totalWeightedMonths * 100, 120)
            /\ sums.byTypeMonths = res.more.byTypeMonths
            /\ \A t \in EmploymentTypes :
                  res.more.byTypeMonths[t]
                      = SumOver(months, {i \in 1..Len(ranges) : ranges[i].type = t})
            /\ \A i \in 1..Len(ranges) :
                  (ranges[i].to.y < ranges[i].from.y) => months[i] = 0

\* C17 witness: the same full-time role Jan 2021 - Dec 2022 on two lines
\* counts 48 months.
C17_Witness ==
    /\ CalledFn("scoreExperienceBlock")
    /\ arg.lines = <<LineFullTime>>
    /\ arg.extra = LineFullTime
    /\ Len(res.more.ranges) = 2
    /\ res.more.ranges[1].from = res.more.ranges[2].from
    /\ res.more.ranges[1].to = res.more.ranges[2].to
    /\ res.more.byTypeMonths["fulltime"] = 48

LowerText(term) == [k \in 1..Len(term) |-> ToLowerChar(term[k])]

\* The configured required locations, in lower case.
RequiredPlaces == {LowerText(arg.cfg.requiredAny[k]) : k \in 1..Len(arg.cfg.requiredAny)}

\* The months, both ends counted, of the extracted ranges whose tagged
\* location is one of the required locations.
MonthsInRequiredPlaces ==
    SumOver([i \in 1..Len(res.ranges) |->
                IF res.ranges[i].loc # None
                      /\ res.ranges[i].loc[1] \in RequiredPlaces
                THEN CountedMonths(res.ranges)[i] ELSE 0],
            1..Len(res.ranges))

\* C14 as stated: the points are 0.4 x weight when a required term occurs
\* in the text, plus, when months are counted, 0.6 x weight x min(1, M / 24)
\* with M the months of exactly the ranges tagged with a required location,
\* for every requiredAny list, the empty one included (to two decimals);
\* and 0 <= points <= weight.
C14_LocationPoints ==
    CalledFn("scoreLocationPresence") =>
        LET text == JoinLines(arg.lines)
            mentioned == \E p \in RequiredPlaces : Includes(text, p)
            M == IF arg.cfg.countMonthsInRequired THEN MonthsInRequiredPlaces ELSE 0
        IN  /\ res.location.pts
                  = RoundDiv((IF mentioned THEN 4 * arg.cfg.weight * 24 ELSE 0)
                                + 6 * arg.cfg.weight * Min(24, M),
                             10 * 24)
            /\ res.location.pts >= 0
            /\ res.location.pts <= arg.cfg.weight

\* The URLs of the text that are not profile URLs, in order.
RemainingUrls == SelectSeq(arg.words, LAMBDA w : w.url /\ ~w.profile)

\* C15 as stated: website is the first URL, among those that match neither
\* the LinkedIn nor the GitHub pattern, that holds a portfolio word, else
\* the first of them, else null; a URL matching neither pattern is never
\* removed, and website never matches one of them.
C15_WebsiteSkipsProfilesOnly ==
    CalledFn("findLinks") =>
        /\ res.website =
              (IF SelectSeq(RemainingUrls, LAMBDA w : w.portfolio) # <<>>
               THEN Some(Head(SelectSeq(RemainingUrls, LAMBDA w : w.portfolio)).text)
               ELSE IF RemainingUrls # <<>> THEN Some(Head(RemainingUrls).text)
               ELSE None)
        /\ res.website # None =>
              ~Test(reLinkedin, res.website[1]) /\ ~Test(reGithub, res.website[1])

\* The skill stands in the text as a token of its own: an occurrence with
\* a blank or the edge of the text on each side.
StandaloneToken(text, skill) ==
    \E i \in 1..Len(text) :
        /\ LiteralAt(text, skill, i)
        /\ i = 1 \/ text[i - 1] \in Space.cs
        /\ i + Len(skill) > Len(text) \/ text[i + Len(skill)] \in Space.cs

\* C18 as stated: for a name holding dots or plus signs ("c++", "node.js",
\* ".net"), hasSkill is true whenever the name occurs in the text as a
\* token of its own, between blanks or the edges of the text.
C18_SpecialNamesAsTokens ==
    (CalledFn("hasSkill") /\ arg.skill \in SpecialSkills) =>
        (StandaloneToken(arg.text, arg.skill) => res)

====
